---- MODULE Spec2Model ----
(***************************************************************************)
(* A model of ida_settings.py: plugin settings namespaced by plugin name   *)
(* and scoped to the system, the user, the working directory and the open  *)
(* IDB, with IDASettings.get_value resolving a key across the four scopes. *)
(*                                                                         *)
(* The three QSettings-backed scopes are modelled by what the calls the    *)
(* code makes on QSettings do (value, setValue, remove, allKeys, with the  *)
(* user scope's fallback to the system scope that the code's own test      *)
(* test_system_fallback documents).  The IDB scope is modelled statement   *)
(* by statement: IDBIDASettings._netnode creates the plugin's netnode and  *)
(* then calls add_netnode_plugin_name, whose first statement calls         *)
(* get_current_plugin_names, a name the module never defines, so that the  *)
(* property raises NameError before any hash operation is made.            *)
(***************************************************************************)
EXTENDS Integers, Sequences, FiniteSets, TLC

VARIABLES
    system,        \* SystemScope QSettings: group -> key -> value
    user,          \* UserScope QSettings: group -> key -> value
    directory,     \* <idb directory>/.ida-settings.ini: group -> key -> value
    netnodes,      \* names of the netnodes that exist in the open IDB
    plugin_names,  \* hash value of PLUGIN_NAMES_KEY in the meta netnode
    last,          \* the last call made and its outcome
    nops,          \* number of calls made so far
    idb,           \* hash of each plugin's netnode: plugin -> key -> value
    task           \* the call that is being made statement by statement

vars == <<system, user, directory, netnodes, plugin_names, last, nops, idb, task>>

-----------------------------------------------------------------------------
(* Bounds *)

\* number of calls in one behaviour
MaxOps == 3
\* longest plugin name given to validate
MaxLen == 3

-----------------------------------------------------------------------------
(* Values of the program *)

None == "<None>"

PLUGIN_1 == <<"p", "l", "u", "g", "i", "n", "1">>
PLUGIN_2 == <<"p", "l", "u", "g", "i", "n", "2">>
KEY_1 == "key_1"
KEY_2 == "key_2"
VALUE_1 == "hello"
VALUE_2 == "goodbye"

\* a key that is not a basestring
NOT_A_STRING == "<int 7>"

Keys == {KEY_1, KEY_2}
\* the keys in the order QSettings.allKeys lists them (sorted)
KeyOrder == <<KEY_1, KEY_2>>
Values == {VALUE_1, VALUE_2}
KeyArgs == Keys \cup {NOT_A_STRING}
PluginArgs == {PLUGIN_1, PLUGIN_2}

\* the empty bytes value
EMPTY_BYTES == ""

isinstance_basestring(key) == key \in Keys
isinstance_bytes(value) == value \in Values \cup {EMPTY_BYTES}

-----------------------------------------------------------------------------
(* validate: FILENAME_RE.match(s) != None *)

\* the letters and digits of the plugin names below; names given to validate
\* are built from "p", "Z", "1", "2" and the other characters of Chars
Letters == {"p", "l", "u", "g", "i", "n", "Z"}
Digits == {"1", "2"}
\* the characters plugin names are built from
Chars == {"p", "Z", "1", "2", " ", "-", ".", "/", "_", "\n"}

\* all sequences over S of length at most n
RECURSIVE SeqsUpTo(_, _)
SeqsUpTo(S, n) ==
    IF n = 0 THEN {<<>>}
    ELSE LET shorter == SeqsUpTo(S, n - 1)
         IN  shorter \cup {Append(t, c) : t \in {u \in shorter : Len(u) = n - 1}, c \in S}

Names == SeqsUpTo(Chars, MaxLen)

\* the character class [A-Za-z0-9 \-\.]
ClassChars == Letters \cup Digits \cup {" ", "-", "."}
InClass(c) == c \in ClassChars

\* where "$" matches in a pattern compiled without re.MULTILINE: at the end
\* of the string, and just before a newline that is the string's last character
DollarMatchesAt(s, p) ==
    \/ p = Len(s)
    \/ p = Len(s) - 1 /\ s[Len(s)] = "\n"

\* re.match anchors the pattern at the start of s: some non-empty prefix of
\* class characters (the "+", with backtracking) is followed by a "$" match
FILENAME_RE_match(s) ==
    \E p \in 1..Len(s) :
        /\ DollarMatchesAt(s, p)
        /\ \A i \in 1..p : InClass(s[i])

validate(s) == FILENAME_RE_match(s)

\* the QSettings groups and netnodes a plugin name can own
Groups == {p \in PluginArgs : validate(p)}

-----------------------------------------------------------------------------
(* Outcomes of a call: the exception it raises ("none": it returns) and    *)
(* the value it returns.                                                    *)

Returns(v) == [exc |-> "none", ret |-> v]
Raises(e) == [exc |-> e, ret |-> None]

-----------------------------------------------------------------------------
(* QSettings, as the code uses it.  A handle names the location it writes  *)
(* (scope, group) and the locations a lookup searches, in order.           *)

Absent == "<absent>"
EmptyStore == [g \in Groups |-> [k \in Keys |-> Absent]]

StoreOf(scope) ==
    CASE scope = "system" -> system
      [] scope = "user" -> user
      [] scope = "directory" -> directory

\* get_qsettings with the fallbacks switched off: every handle searches its
\* own location only
get_qsettings_no_fallback(scope, group) ==
    [scope |-> scope, group |-> group, search |-> <<scope>>]

\* QSettings(scope, organization, application), then beginGroup(group).
\* Fallbacks are enabled by default: a user-scope handle also searches the
\* system-scope location of the same organization and application.
get_qsettings(scope, group) ==
    [scope |-> scope, group |-> group,
     search |-> IF scope = "user" THEN <<"user", "system">> ELSE <<scope>>]

\* QSettings.value(key): the value of the first searched location that holds
\* the key, None (the default value) when none holds it
RECURSIVE LookUp(_, _, _)
LookUp(s, key, i) ==
    IF i > Len(s.search) THEN None
    ELSE IF StoreOf(s.search[i])[s.group][key] # Absent
         THEN StoreOf(s.search[i])[s.group][key]
         ELSE LookUp(s, key, i + 1)

QSettings_value(s, key) == LookUp(s, key, 1)

\* QSettings.value(key) keeping the value it found in the handle's own
\* location, as a lookup that caches what it read from the fallback would
QSettings_value_store_caches(s, key) ==
    IF LookUp(s, key, 1) = None THEN StoreOf(s.scope)
    ELSE [StoreOf(s.scope) EXCEPT ![s.group][key] = LookUp(s, key, 1)]

\* the handle's own location after QSettings.value(key): a lookup writes
\* nothing, also when it finds the key in the location it falls back to
QSettings_value_store(s, key) == StoreOf(s.scope)

\* QSettings.setValue(key, value) writing the key in every group of the
\* location, as a handle on which beginGroup was not called would
QSettings_setValue_every_group(s, key, value) ==
    [g \in Groups |-> [StoreOf(s.scope)[g] EXCEPT ![key] = value]]

\* QSettings.setValue(key, value) writes the handle's own location
QSettings_setValue(s, key, value) ==
    [StoreOf(s.scope) EXCEPT ![s.group][key] = value]

\* QSettings.remove(key) removes the key from the handle's own location
QSettings_remove(s, key) ==
    [StoreOf(s.scope) EXCEPT ![s.group][key] = Absent]

\* QSettings.allKeys(): the keys of every searched location, sorted, each once
QSettings_allKeys(s) ==
    SelectSeq(KeyOrder,
              LAMBDA k : \E i \in 1..Len(s.search) :
                            StoreOf(s.search[i])[s.group][k] # Absent)

-----------------------------------------------------------------------------
(* IDASettingsBase.__init__ and IDASettings.__init__ *)

\* the outcome of constructing a handle for plugin_name
IDASettingsBase_init(plugin_name) ==
    IF ~validate(plugin_name) THEN Raises("RuntimeError") ELSE Returns(plugin_name)

IDASettings_init(plugin_name) ==
    IF ~validate(plugin_name) THEN Raises("RuntimeError") ELSE Returns(plugin_name)

-----------------------------------------------------------------------------
(* SystemIDASettings, UserIDASettings, DirectoryIDASettings.  A key that  *)
(* is not a string is refused by the Qt binding with TypeError.            *)

SystemIDASettings_settings(plugin_name) == get_qsettings("system", plugin_name)

\* SystemIDASettings.get_value without the test for None: the default value
\* of QSettings.value is returned for a key that is not stored
SystemIDASettings_get_value_no_raise(plugin_name, key) ==
    IF ~isinstance_basestring(key) THEN Raises("TypeError")
    ELSE Returns(QSettings_value(SystemIDASettings_settings(plugin_name), key))

SystemIDASettings_get_value(plugin_name, key) ==
    IF ~isinstance_basestring(key) THEN Raises("TypeError")
    ELSE LET v == QSettings_value(SystemIDASettings_settings(plugin_name), key)
         IN  IF v = None THEN Raises("KeyError") ELSE Returns(v)

SystemIDASettings_set_value(plugin_name, key, value) ==
    IF ~isinstance_basestring(key) THEN Raises("TypeError") ELSE Returns(None)

\* the system store after set_value
SystemIDASettings_set_value_store(plugin_name, key, value) ==
    IF ~isinstance_basestring(key) THEN system
    ELSE QSettings_setValue(SystemIDASettings_settings(plugin_name), key, value)

SystemIDASettings_del_value(plugin_name, key) ==
    IF ~isinstance_basestring(key) THEN Raises("TypeError") ELSE Returns(None)

\* the system store after del_value
SystemIDASettings_del_value_store(plugin_name, key) ==
    IF ~isinstance_basestring(key) THEN system
    ELSE QSettings_remove(SystemIDASettings_settings(plugin_name), key)

\* list(get_keys())
SystemIDASettings_get_keys(plugin_name) ==
    Returns(QSettings_allKeys(SystemIDASettings_settings(plugin_name)))

\* the user-scope handle, which falls back to the system scope
UserIDASettings_settings(plugin_name) == get_qsettings("user", plugin_name)

UserIDASettings_get_value(plugin_name, key) ==
    IF ~isinstance_basestring(key) THEN Raises("TypeError")
    ELSE LET v == QSettings_value(UserIDASettings_settings(plugin_name), key)
         IN  IF v = None THEN Raises("KeyError") ELSE Returns(v)

UserIDASettings_set_value(plugin_name, key, value) ==
    IF ~isinstance_basestring(key) THEN Raises("TypeError") ELSE Returns(None)

\* the user store after set_value
UserIDASettings_set_value_store(plugin_name, key, value) ==
    IF ~isinstance_basestring(key) THEN user
    ELSE QSettings_setValue(UserIDASettings_settings(plugin_name), key, value)

UserIDASettings_del_value(plugin_name, key) ==
    IF ~isinstance_basestring(key) THEN Raises("TypeError") ELSE Returns(None)

\* the user store after del_value
UserIDASettings_del_value_store(plugin_name, key) ==
    IF ~isinstance_basestring(key) THEN user
    ELSE QSettings_remove(UserIDASettings_settings(plugin_name), key)

\* list(get_keys())
UserIDASettings_get_keys(plugin_name) ==
    Returns(QSettings_allKeys(UserIDASettings_settings(plugin_name)))

\* QSettings(get_current_directory_config_path(), IniFormat): one file, no fallback
DirectoryIDASettings_settings(plugin_name) == [scope |-> "directory", group |-> plugin_name, search |-> <<"directory">>]

DirectoryIDASettings_get_value(plugin_name, key) ==
    IF ~isinstance_basestring(key) THEN Raises("TypeError")
    ELSE LET v == QSettings_value(DirectoryIDASettings_settings(plugin_name), key)
         IN  IF v = None THEN Raises("KeyError") ELSE Returns(v)

DirectoryIDASettings_set_value(plugin_name, key, value) ==
    IF ~isinstance_basestring(key) THEN Raises("TypeError") ELSE Returns(None)

\* the directory store after set_value
DirectoryIDASettings_set_value_store(plugin_name, key, value) ==
    IF ~isinstance_basestring(key) THEN directory
    ELSE QSettings_setValue(DirectoryIDASettings_settings(plugin_name), key, value)

DirectoryIDASettings_del_value(plugin_name, key) ==
    IF ~isinstance_basestring(key) THEN Raises("TypeError") ELSE Returns(None)

\* the directory store after del_value
DirectoryIDASettings_del_value_store(plugin_name, key) ==
    IF ~isinstance_basestring(key) THEN directory
    ELSE QSettings_remove(DirectoryIDASettings_settings(plugin_name), key)

\* list(get_keys())
DirectoryIDASettings_get_keys(plugin_name) ==
    Returns(QSettings_allKeys(DirectoryIDASettings_settings(plugin_name)))

-----------------------------------------------------------------------------
(* The IDB scope: netnodes of the open IDB *)

IDA_SETTINGS_NODE == "$ IDAPython.IDA-Settings"
PLUGIN_NAMES_KEY == "plugin_names"

\* "$ {org}.{application}" and "$ {org}.{application}.{plugin_name}"
MetaNodeName == <<IDA_SETTINGS_NODE, <<>>>>
PluginNodeName(plugin_name) == <<IDA_SETTINGS_NODE, plugin_name>>

\* idaapi.netnode(node_name, 0, True) creates the node when it does not exist
netnode_create(node_name) == netnodes \cup {node_name}

\* get_meta_netnode(): the netnodes of the IDB after the call
get_meta_netnode == netnode_create(MetaNodeName)

\* get_netnode_plugin_names(): hashval(PLUGIN_NAMES_KEY) of the meta netnode;
\* None gives [], anything else goes to json.loads, and the module never
\* imports json
get_netnode_plugin_names ==
    IF plugin_names = None THEN Returns(<<>>) ELSE Raises("NameError")

\* add_netnode_plugin_name(plugin_name): its first statement evaluates the
\* global name get_current_plugin_names, which the module never defines
add_netnode_plugin_name(plugin_name) == Raises("NameError")

\* the value of PLUGIN_NAMES_KEY after an add_netnode_plugin_name that writes
\* the names it read with plugin_name appended, without the test of line 293
add_netnode_plugin_name_names_appended(plugin_name) ==
    IF plugin_names = None THEN <<plugin_name>> ELSE Append(plugin_names, plugin_name)

\* the value of PLUGIN_NAMES_KEY after add_netnode_plugin_name(plugin_name):
\* the call raises before it reaches hashset (line 299)
add_netnode_plugin_name_names(plugin_name) == plugin_names

\* IDBIDASettings._netnode: the outcome of evaluating the property
IDBIDASettings_netnode(plugin_name) == add_netnode_plugin_name(plugin_name)

\* IDBIDASettings._netnode: the netnodes of the IDB after evaluating it (the
\* plugin's node is created before add_netnode_plugin_name is called)
IDBIDASettings_netnode_nodes(plugin_name) ==
    netnode_create(PluginNodeName(plugin_name))

\* IDBIDASettings._netnode: the value of PLUGIN_NAMES_KEY after evaluating it
IDBIDASettings_netnode_names(plugin_name) ==
    add_netnode_plugin_name_names(plugin_name)

\* The methods of IDBIDASettings evaluate self._netnode before they make a
\* hash call on it: when the property raises, the hash call is not made and
\* the exception is the method's outcome (get_value turns a TypeError into
\* KeyError).  hashval gives None for a key the hash does not hold.
IDBIDASettings_get_value(plugin_name, key) ==
    IF ~isinstance_basestring(key) THEN Raises("TypeError")
    ELSE LET n == IDBIDASettings_netnode(plugin_name)
         IN  IF n.exc = "TypeError" THEN Raises("KeyError")
             ELSE IF n.exc # "none" THEN Raises(n.exc)
             ELSE IF idb[plugin_name][key] = Absent THEN Raises("KeyError")
             ELSE Returns(idb[plugin_name][key])

IDBIDASettings_set_value(plugin_name, key, value) ==
    IF ~isinstance_basestring(key) THEN Raises("TypeError")
    ELSE IF ~isinstance_bytes(value) THEN Raises("TypeError")
    ELSE LET n == IDBIDASettings_netnode(plugin_name)
         IN  IF n.exc # "none" THEN Raises(n.exc) ELSE Returns(None)

\* the hashes of the IDB after set_value: hashset(key, value), when it is reached
IDBIDASettings_set_value_hash(plugin_name, key, value) ==
    IF /\ isinstance_basestring(key)
       /\ isinstance_bytes(value)
       /\ IDBIDASettings_netnode(plugin_name).exc = "none"
    THEN [idb EXCEPT ![plugin_name][key] = value]
    ELSE idb

IDBIDASettings_del_value(plugin_name, key) ==
    IF ~isinstance_basestring(key) THEN Raises("TypeError")
    ELSE LET n == IDBIDASettings_netnode(plugin_name)
         IN  IF n.exc # "none" THEN Raises(n.exc) ELSE Returns(None)

\* the hashes of the IDB after del_value: hashdel(key) and hashset(key, None),
\* when they are reached, leave the key without a value
IDBIDASettings_del_value_hash(plugin_name, key) ==
    IF isinstance_basestring(key) /\ IDBIDASettings_netnode(plugin_name).exc = "none"
    THEN [idb EXCEPT ![plugin_name][key] = Absent]
    ELSE idb

\* list(get_keys()): the generator's body runs when the list is built;
\* hash1st and hashnxt walk the keys of the hash in key order
IDBIDASettings_get_keys(plugin_name) ==
    LET n == IDBIDASettings_netnode(plugin_name)
    IN  IF n.exc # "none" THEN Raises(n.exc)
        ELSE Returns(SelectSeq(KeyOrder, LAMBDA k : idb[plugin_name][k] # Absent))

\* the netnodes of the IDB after a method of IDBIDASettings was called with key
IDBIDASettings_nodes_after(plugin_name, key) ==
    IF ~isinstance_basestring(key) THEN netnodes
    ELSE IDBIDASettings_netnode_nodes(plugin_name)

\* the value of PLUGIN_NAMES_KEY after a method of IDBIDASettings was called
\* with key
IDBIDASettings_names_after(plugin_name, key) ==
    IF ~isinstance_basestring(key) THEN plugin_names
    ELSE IDBIDASettings_netnode_names(plugin_name)

\* the netnodes of the IDB and the value of PLUGIN_NAMES_KEY after set_value,
\* which tests the value too before it evaluates self._netnode
IDBIDASettings_set_value_nodes(plugin_name, key, value) ==
    IF ~isinstance_basestring(key) \/ ~isinstance_bytes(value) THEN netnodes
    ELSE IDBIDASettings_netnode_nodes(plugin_name)

IDBIDASettings_set_value_names(plugin_name, key, value) ==
    IF ~isinstance_basestring(key) \/ ~isinstance_bytes(value) THEN plugin_names
    ELSE IDBIDASettings_netnode_names(plugin_name)

-----------------------------------------------------------------------------
(* The scope stores of a facade: IDASettings.system, user, directory, idb *)

Scopes == {"system", "user", "directory", "idb"}

get_value(scope, plugin_name, key) ==
    CASE scope = "system" -> SystemIDASettings_get_value(plugin_name, key)
      [] scope = "user" -> UserIDASettings_get_value(plugin_name, key)
      [] scope = "directory" -> DirectoryIDASettings_get_value(plugin_name, key)
      [] scope = "idb" -> IDBIDASettings_get_value(plugin_name, key)

set_value(scope, plugin_name, key, value) ==
    CASE scope = "system" -> SystemIDASettings_set_value(plugin_name, key, value)
      [] scope = "user" -> UserIDASettings_set_value(plugin_name, key, value)
      [] scope = "directory" -> DirectoryIDASettings_set_value(plugin_name, key, value)
      [] scope = "idb" -> IDBIDASettings_set_value(plugin_name, key, value)

del_value(scope, plugin_name, key) ==
    CASE scope = "system" -> SystemIDASettings_del_value(plugin_name, key)
      [] scope = "user" -> UserIDASettings_del_value(plugin_name, key)
      [] scope = "directory" -> DirectoryIDASettings_del_value(plugin_name, key)
      [] scope = "idb" -> IDBIDASettings_del_value(plugin_name, key)

get_keys(scope, plugin_name) ==
    CASE scope = "system" -> SystemIDASettings_get_keys(plugin_name)
      [] scope = "user" -> UserIDASettings_get_keys(plugin_name)
      [] scope = "directory" -> DirectoryIDASettings_get_keys(plugin_name)
      [] scope = "idb" -> IDBIDASettings_get_keys(plugin_name)

-----------------------------------------------------------------------------
(* DictMixin *)

DictMixin_getitem(scope, plugin_name, key) ==
    IF ~isinstance_basestring(key) THEN Raises("TypeError")
    ELSE get_value(scope, plugin_name, key)

\* settings[key] = value
DictMixin_setitem(scope, plugin_name, key, value) ==
    IF ~isinstance_basestring(key) THEN Raises("TypeError")
    ELSE IF ~isinstance_bytes(value) THEN Raises("TypeError")
    ELSE set_value(scope, plugin_name, key, value)

\* del settings[key]
DictMixin_delitem(scope, plugin_name, key) ==
    IF ~isinstance_basestring(key) THEN Raises("TypeError")
    ELSE del_value(scope, plugin_name, key)

\* key in settings, with the truth of the value in place of the test for
\* None: an empty value counts as absent
DictMixin_contains_truthy(scope, plugin_name, key) ==
    LET r == DictMixin_getitem(scope, plugin_name, key)
    IN  IF r.exc = "KeyError" THEN Returns(FALSE)
        ELSE IF r.exc # "none" THEN r
        ELSE Returns(r.ret \notin {None, EMPTY_BYTES})

\* key in settings
DictMixin_contains(scope, plugin_name, key) ==
    LET r == DictMixin_getitem(scope, plugin_name, key)
    IN  IF r.exc = "KeyError" THEN Returns(FALSE)
        ELSE IF r.exc # "none" THEN r
        ELSE Returns(r.ret # None)

-----------------------------------------------------------------------------
(* IDASettings.get_value: idb, directory, user, system, in this order; only *)
(* KeyError is caught                                                       *)

ProbeOrder == <<"idb", "directory", "user", "system">>

IDASettings_get_value(plugin_name, key) ==
    LET r_idb == IDBIDASettings_get_value(plugin_name, key)
        r_directory == DirectoryIDASettings_get_value(plugin_name, key)
        r_user == UserIDASettings_get_value(plugin_name, key)
        r_system == SystemIDASettings_get_value(plugin_name, key)
    IN  IF r_idb.exc # "KeyError" THEN r_idb
        ELSE IF r_directory.exc # "KeyError" THEN r_directory
        ELSE IF r_user.exc # "KeyError" THEN r_user
        ELSE IF r_system.exc # "KeyError" THEN r_system
        ELSE Raises("KeyError")

\* one try block of IDASettings.get_value with a bare "except:" in place of
\* "except KeyError:": every exception of the probe is taken for KeyError
IDASettings_get_value_probe_bare_except(i, plugin_name, key) ==
    LET r == get_value(ProbeOrder[i], plugin_name, key)
    IN  IF r.exc # "none" THEN Raises("KeyError") ELSE r

\* the try blocks of IDASettings.get_value in the opposite order: the
\* System scope is probed first
IDASettings_get_value_probe_lowest_first(i, plugin_name, key) ==
    get_value(ProbeOrder[Len(ProbeOrder) + 1 - i], plugin_name, key)

\* the i-th try block of IDASettings.get_value: the outcome of the probe
IDASettings_get_value_probe(i, plugin_name, key) ==
    get_value(ProbeOrder[i], plugin_name, key)

\* the number of scopes IDASettings.get_value probes: it stops at the first
\* probe that does not raise KeyError
IDASettings_get_value_probes(plugin_name, key) ==
    IF IDBIDASettings_get_value(plugin_name, key).exc # "KeyError" THEN 1
    ELSE IF DirectoryIDASettings_get_value(plugin_name, key).exc # "KeyError" THEN 2
    ELSE IF UserIDASettings_get_value(plugin_name, key).exc # "KeyError" THEN 3
    ELSE 4

\* IDASettings.idb_plugin_names
IDASettings_idb_plugin_names == get_netnode_plugin_names

-----------------------------------------------------------------------------
(* The state machine *)

NoArg == "-"

Call(op, plugin_name, scope, key, value, r) ==
    [op |-> op, plugin |-> plugin_name, scope |-> scope, key |-> key,
     value |-> value, exc |-> r.exc, ret |-> r.ret]

\* no call is being made statement by statement
Idle == [op |-> "idle", pc |-> "done"]

Init ==
    /\ system = EmptyStore
    /\ user = EmptyStore
    /\ directory = EmptyStore
    /\ netnodes = {}
    /\ plugin_names = None
    /\ idb = EmptyStore
    /\ task = Idle
    /\ last = Call("init", <<>>, NoArg, NoArg, NoArg, Returns(None))
    /\ nops = 0

\* A call made through IDASettings(plugin_name) whose constructor raises:
\* nothing but the outcome changes
ConstructorRaises(op, plugin_name, scope, key, value) ==
    /\ last' = Call(op, plugin_name, scope, key, value, IDASettings_init(plugin_name))
    /\ UNCHANGED <<system, user, directory, netnodes, plugin_names, idb>>

\* what <scope>.set_value(key, value) of plugin_name writes
SetValueWrites(plugin_name, scope, key, value) ==
    /\ system' = IF scope = "system"
                 THEN SystemIDASettings_set_value_store(plugin_name, key, value)
                 ELSE system
    /\ user' = IF scope = "user"
               THEN UserIDASettings_set_value_store(plugin_name, key, value)
               ELSE user
    /\ directory' = IF scope = "directory"
                    THEN DirectoryIDASettings_set_value_store(plugin_name, key, value)
                    ELSE directory
    /\ idb' = IF scope = "idb"
              THEN IDBIDASettings_set_value_hash(plugin_name, key, value)
              ELSE idb
    /\ netnodes' = IF scope = "idb"
                   THEN IDBIDASettings_set_value_nodes(plugin_name, key, value)
                   ELSE netnodes
    /\ plugin_names' = IF scope = "idb"
                       THEN IDBIDASettings_set_value_names(plugin_name, key, value)
                       ELSE plugin_names

\* what <scope>.del_value(key) of plugin_name writes
DelValueWrites(plugin_name, scope, key) ==
    /\ system' = IF scope = "system"
                 THEN SystemIDASettings_del_value_store(plugin_name, key)
                 ELSE system
    /\ user' = IF scope = "user"
               THEN UserIDASettings_del_value_store(plugin_name, key)
               ELSE user
    /\ directory' = IF scope = "directory"
                    THEN DirectoryIDASettings_del_value_store(plugin_name, key)
                    ELSE directory
    /\ idb' = IF scope = "idb"
              THEN IDBIDASettings_del_value_hash(plugin_name, key)
              ELSE idb
    /\ netnodes' = IF scope = "idb"
                   THEN IDBIDASettings_nodes_after(plugin_name, key)
                   ELSE netnodes
    /\ plugin_names' = IF scope = "idb"
                       THEN IDBIDASettings_names_after(plugin_name, key)
                       ELSE plugin_names

\* what get_value(key) of plugin_name writes when it is made on every scope of
\* probed: value() and hashval write nothing, evaluating _netnode does
GetValueWrites(plugin_name, probed, key) ==
    /\ system' = IF "system" \in probed
                 THEN QSettings_value_store(SystemIDASettings_settings(plugin_name), key)
                 ELSE system
    /\ user' = IF "user" \in probed
               THEN QSettings_value_store(UserIDASettings_settings(plugin_name), key)
               ELSE user
    /\ directory' = IF "directory" \in probed
                    THEN QSettings_value_store(DirectoryIDASettings_settings(plugin_name), key)
                    ELSE directory
    /\ idb' = idb
    /\ netnodes' = IF "idb" \in probed
                   THEN IDBIDASettings_nodes_after(plugin_name, key)
                   ELSE netnodes
    /\ plugin_names' = IF "idb" \in probed
                       THEN IDBIDASettings_names_after(plugin_name, key)
                       ELSE plugin_names

\* IDASettings(plugin_name).<scope>.set_value(key, value)
SetValueOf(plugins, scopes, values) ==
    /\ nops < MaxOps
    /\ nops' = nops + 1
    /\ \E plugin_name \in plugins, scope \in scopes, key \in Keys, value \in values :
         IF IDASettings_init(plugin_name).exc # "none"
         THEN ConstructorRaises("set_value", plugin_name, scope, key, value)
         ELSE /\ last' = Call("set_value", plugin_name, scope, key, value,
                              set_value(scope, plugin_name, key, value))
              /\ SetValueWrites(plugin_name, scope, key, value)
    /\ UNCHANGED task

SetValue == SetValueOf(PluginArgs, Scopes, Values)

\* IDASettings(plugin_name).<scope>.del_value(key)
DelValueOf(plugins, scopes) ==
    /\ nops < MaxOps
    /\ nops' = nops + 1
    /\ \E plugin_name \in plugins, scope \in scopes, key \in Keys :
         IF IDASettings_init(plugin_name).exc # "none"
         THEN ConstructorRaises("del_value", plugin_name, scope, key, NoArg)
         ELSE /\ last' = Call("del_value", plugin_name, scope, key, NoArg,
                              del_value(scope, plugin_name, key))
              /\ DelValueWrites(plugin_name, scope, key)
    /\ UNCHANGED task

DelValue == DelValueOf(PluginArgs, Scopes)

\* IDASettings(plugin_name).<scope>.get_value(key)
GetValueOf(plugins, scopes) ==
    /\ nops < MaxOps
    /\ nops' = nops + 1
    /\ \E plugin_name \in plugins, scope \in scopes, key \in KeyArgs :
         IF IDASettings_init(plugin_name).exc # "none"
         THEN ConstructorRaises("get_value", plugin_name, scope, key, NoArg)
         ELSE /\ last' = Call("get_value", plugin_name, scope, key, NoArg,
                              get_value(scope, plugin_name, key))
              /\ GetValueWrites(plugin_name, {scope}, key)
    /\ UNCHANGED task

GetValue == GetValueOf(PluginArgs, Scopes)

\* list(IDASettings(plugin_name).<scope>.get_keys())
GetKeysOf(plugins, scopes) ==
    /\ nops < MaxOps
    /\ nops' = nops + 1
    /\ \E plugin_name \in plugins, scope \in scopes :
         IF IDASettings_init(plugin_name).exc # "none"
         THEN ConstructorRaises("get_keys", plugin_name, scope, NoArg, NoArg)
         ELSE /\ last' = Call("get_keys", plugin_name, scope, NoArg, NoArg,
                              get_keys(scope, plugin_name))
              /\ netnodes' = IF scope = "idb"
                             THEN IDBIDASettings_netnode_nodes(plugin_name)
                             ELSE netnodes
              /\ plugin_names' = IF scope = "idb"
                                 THEN IDBIDASettings_netnode_names(plugin_name)
                                 ELSE plugin_names
              /\ UNCHANGED <<system, user, directory, idb>>
    /\ UNCHANGED task

GetKeys == GetKeysOf(PluginArgs, Scopes)

\* key in IDASettings(plugin_name).<scope>
ContainsOf(plugins, scopes) ==
    /\ nops < MaxOps
    /\ nops' = nops + 1
    /\ \E plugin_name \in plugins, scope \in scopes, key \in Keys :
         IF IDASettings_init(plugin_name).exc # "none"
         THEN ConstructorRaises("contains", plugin_name, scope, key, NoArg)
         ELSE /\ last' = Call("contains", plugin_name, scope, key, NoArg,
                              DictMixin_contains(scope, plugin_name, key))
              /\ GetValueWrites(plugin_name, {scope}, key)
    /\ UNCHANGED task

Contains == ContainsOf(PluginArgs, Scopes)

\* IDASettings(plugin_name).get_value(key)
ResolveOf(plugins) ==
    /\ nops < MaxOps
    /\ nops' = nops + 1
    /\ \E plugin_name \in plugins, key \in KeyArgs :
         IF IDASettings_init(plugin_name).exc # "none"
         THEN ConstructorRaises("resolve", plugin_name, NoArg, key, NoArg)
         ELSE /\ last' = Call("resolve", plugin_name, NoArg, key, NoArg,
                              IDASettings_get_value(plugin_name, key))
              /\ GetValueWrites(plugin_name,
                                {ProbeOrder[i] : i \in 1..IDASettings_get_value_probes(plugin_name, key)},
                                key)
    /\ UNCHANGED task

Resolve == ResolveOf(PluginArgs)

\* IDASettings(plugin_name).idb_plugin_names
IdbPluginNames ==
    /\ nops < MaxOps
    /\ nops' = nops + 1
    /\ \E plugin_name \in PluginArgs :
         IF IDASettings_init(plugin_name).exc # "none"
         THEN ConstructorRaises("idb_plugin_names", plugin_name, NoArg, NoArg, NoArg)
         ELSE /\ last' = Call("idb_plugin_names", plugin_name, NoArg, NoArg, NoArg,
                              IDASettings_idb_plugin_names)
              /\ netnodes' = get_meta_netnode
              /\ UNCHANGED <<system, user, directory, plugin_names, idb>>
    /\ UNCHANGED task

Next ==
    \/ SetValue
    \/ DelValue
    \/ GetValue
    \/ GetKeys
    \/ Contains
    \/ Resolve
    \/ IdbPluginNames

Spec == Init /\ [][Next]_vars

-----------------------------------------------------------------------------
(* The dictionary layer (DictMixin) of the scope stores of one plugin, on   *)
(* values that are bytes, empty or None                                     *)

DictPlugins == {PLUGIN_1}
DictValues == {VALUE_1, EMPTY_BYTES, None}

\* IDASettings(plugin_name).<scope>[key] = value
SetItem ==
    /\ nops < MaxOps
    /\ nops' = nops + 1
    /\ \E plugin_name \in DictPlugins, scope \in Scopes, key \in Keys, value \in DictValues :
         IF IDASettings_init(plugin_name).exc # "none"
         THEN ConstructorRaises("setitem", plugin_name, scope, key, value)
         ELSE /\ last' = Call("setitem", plugin_name, scope, key, value,
                              DictMixin_setitem(scope, plugin_name, key, value))
              /\ IF isinstance_basestring(key) /\ isinstance_bytes(value)
                 THEN SetValueWrites(plugin_name, scope, key, value)
                 ELSE UNCHANGED <<system, user, directory, netnodes, plugin_names, idb>>
    /\ UNCHANGED task

\* IDASettings(plugin_name).<scope>[key]
GetItem ==
    /\ nops < MaxOps
    /\ nops' = nops + 1
    /\ \E plugin_name \in DictPlugins, scope \in Scopes, key \in KeyArgs :
         IF IDASettings_init(plugin_name).exc # "none"
         THEN ConstructorRaises("getitem", plugin_name, scope, key, NoArg)
         ELSE /\ last' = Call("getitem", plugin_name, scope, key, NoArg,
                              DictMixin_getitem(scope, plugin_name, key))
              /\ IF isinstance_basestring(key)
                 THEN GetValueWrites(plugin_name, {scope}, key)
                 ELSE UNCHANGED <<system, user, directory, netnodes, plugin_names, idb>>
    /\ UNCHANGED task

\* del IDASettings(plugin_name).<scope>[key]
DelItem ==
    /\ nops < MaxOps
    /\ nops' = nops + 1
    /\ \E plugin_name \in DictPlugins, scope \in Scopes, key \in Keys :
         IF IDASettings_init(plugin_name).exc # "none"
         THEN ConstructorRaises("delitem", plugin_name, scope, key, NoArg)
         ELSE /\ last' = Call("delitem", plugin_name, scope, key, NoArg,
                              DictMixin_delitem(scope, plugin_name, key))
              /\ IF isinstance_basestring(key)
                 THEN DelValueWrites(plugin_name, scope, key)
                 ELSE UNCHANGED <<system, user, directory, netnodes, plugin_names, idb>>
    /\ UNCHANGED task

NextDict ==
    \/ SetValueOf(DictPlugins, Scopes, DictValues)
    \/ SetItem
    \/ GetItem
    \/ DelItem
    \/ ContainsOf(DictPlugins, Scopes)

SpecDict == Init /\ [][NextDict]_vars

-----------------------------------------------------------------------------
(* IDASettings.get_value made probe by probe, with one set_value of another *)
(* caller on the same key of the same plugin between two of its steps       *)

RacePlugins == {PLUGIN_1}

\* scopes that hold any of the values, or nothing, for KEY_1 of PLUGIN_1
InitRace ==
    /\ \E s, u, d \in Values \cup {Absent} :
         /\ system = [EmptyStore EXCEPT ![PLUGIN_1][KEY_1] = s]
         /\ user = [EmptyStore EXCEPT ![PLUGIN_1][KEY_1] = u]
         /\ directory = [EmptyStore EXCEPT ![PLUGIN_1][KEY_1] = d]
    /\ netnodes = {}
    /\ plugin_names = None
    /\ idb = EmptyStore
    /\ task = Idle
    /\ last = Call("init", <<>>, NoArg, NoArg, NoArg, Returns(None))
    /\ nops = 0

\* IDASettings(plugin_name).get_value(key) is called
ResolveCall ==
    /\ nops < MaxOps
    /\ nops' = nops + 1
    /\ task.pc = "done"
    /\ \E plugin_name \in RacePlugins, key \in KeyArgs :
         IF IDASettings_init(plugin_name).exc # "none"
         THEN /\ ConstructorRaises("resolve", plugin_name, NoArg, key, NoArg)
              /\ task' = Idle
         ELSE /\ task' = [op |-> "resolve", pc |-> "probe", plugin |-> plugin_name,
                          key |-> key, probe |-> 1, sets |-> 0, before |-> Returns(None)]
              /\ UNCHANGED <<system, user, directory, netnodes, plugin_names, idb, last>>

\* the next try block of IDASettings.get_value: the probe returns or raises
\* something that is not KeyError and the call ends, or the next block
\* follows, or (after the last block) the call raises KeyError
ResolveProbe ==
    /\ task.op = "resolve"
    /\ task.pc = "probe"
    /\ LET r == IDASettings_get_value_probe(task.probe, task.plugin, task.key)
       IN  /\ GetValueWrites(task.plugin, {ProbeOrder[task.probe]}, task.key)
           /\ IF r.exc # "KeyError"
              THEN /\ last' = Call("resolve", task.plugin, NoArg, task.key, NoArg, r)
                   /\ task' = [task EXCEPT !.pc = "done"]
              ELSE IF task.probe = Len(ProbeOrder)
              THEN /\ last' = Call("resolve", task.plugin, NoArg, task.key, NoArg,
                                   Raises("KeyError"))
                   /\ task' = [task EXCEPT !.pc = "done"]
              ELSE /\ task' = [task EXCEPT !.probe = task.probe + 1]
                   /\ UNCHANGED last
    /\ UNCHANGED nops

\* another caller's IDASettings(plugin_name).<scope>.set_value(key, value),
\* once while the call of get_value is in progress
ConcurrentSet ==
    /\ task.op = "resolve"
    /\ task.pc = "probe"
    /\ task.sets = 0
    /\ task.key \in Keys
    /\ \E scope \in Scopes, value \in Values :
         SetValueWrites(task.plugin, scope, task.key, value)
    /\ task' = [task EXCEPT !.sets = 1,
                            !.before = IDASettings_get_value(task.plugin, task.key)]
    /\ UNCHANGED <<last, nops>>

NextRace ==
    \/ ResolveCall
    \/ ResolveProbe
    \/ ConcurrentSet

SpecRace == InitRace /\ [][NextRace]_vars

-----------------------------------------------------------------------------
(* DictMixin.items and DictMixin.values made step by step, with del_value   *)
(* of another caller between two steps                                      *)

IterPlugins == {PLUGIN_1}

\* the handle of a QSettings scope store
settings(scope, plugin_name) ==
    CASE scope = "system" -> SystemIDASettings_settings(plugin_name)
      [] scope = "user" -> UserIDASettings_settings(plugin_name)
      [] scope = "directory" -> DirectoryIDASettings_settings(plugin_name)

KeyIndex(key) == CHOOSE i \in 1..Len(KeyOrder) : KeyOrder[i] = key

\* hash1st() (prev is NoArg) and hashnxt(prev) of the plugin's netnode: the
\* first key, or the first key after prev, that the hash holds; NoArg stands
\* for BADNODE
IDBIDASettings_hashnxt(plugin_name, prev) ==
    LET following == SelectSeq(KeyOrder,
                               LAMBDA k : /\ idb[plugin_name][k] # Absent
                                          /\ (prev = NoArg \/ KeyIndex(k) > KeyIndex(prev)))
    IN  IF following = <<>> THEN NoArg ELSE Head(following)

\* IDASettings(plugin_name).<scope>.items() or .values() is called: the
\* generators are made, none of their code has run
IterCall ==
    /\ nops < MaxOps
    /\ nops' = nops + 1
    /\ task.pc = "done"
    /\ \E plugin_name \in IterPlugins, scope \in Scopes, op \in {"items", "values"} :
         IF IDASettings_init(plugin_name).exc # "none"
         THEN /\ ConstructorRaises(op, plugin_name, scope, NoArg, NoArg)
              /\ task' = Idle
         ELSE /\ task' = [op |-> op, pc |-> "keys", plugin |-> plugin_name,
                          scope |-> scope, keys |-> <<>>, key |-> NoArg,
                          out |-> <<>>, dels |-> 0, hit |-> FALSE]
              /\ UNCHANGED <<system, user, directory, netnodes, plugin_names, idb, last>>

\* the call ends with outcome r
IterEnd(r) ==
    /\ last' = Call(task.op, task.plugin, task.scope, NoArg, NoArg, r)
    /\ task' = [task EXCEPT !.pc = "done"]

\* The next step of the list comprehension over itervalues or iteritems.
\*   "keys": the generator of get_keys starts; a QSettings store calls
\*           allKeys() once and walks the list it got;
\*   "next": get_keys yields its next key, or ends and the list is returned;
\*           the IDB store evaluates _netnode and calls hash1st or hashnxt;
\*   "get":  self[k] for the key yielded; an exception ends the call.
IterStep ==
    /\ task.op \in {"items", "values"}
    /\ task.pc # "done"
    /\ IF task.pc = "get"
       THEN LET r == DictMixin_getitem(task.scope, task.plugin, task.key)
            IN  /\ GetValueWrites(task.plugin, {task.scope}, task.key)
                /\ IF r.exc # "none"
                   THEN IterEnd(r)
                   ELSE /\ task' = [task EXCEPT
                                      !.pc = "next",
                                      !.out = Append(task.out,
                                                     IF task.op = "items"
                                                     THEN <<task.key, r.ret>>
                                                     ELSE r.ret)]
                        /\ UNCHANGED last
       ELSE IF task.scope = "idb"
       THEN /\ netnodes' = IDBIDASettings_netnode_nodes(task.plugin)
            /\ plugin_names' = IDBIDASettings_netnode_names(task.plugin)
            /\ UNCHANGED <<system, user, directory, idb>>
            /\ IF IDBIDASettings_netnode(task.plugin).exc # "none"
               THEN IterEnd(Raises(IDBIDASettings_netnode(task.plugin).exc))
               ELSE IF IDBIDASettings_hashnxt(task.plugin, task.key) = NoArg
               THEN IterEnd(Returns(task.out))
               ELSE /\ task' = [task EXCEPT
                                  !.pc = "get",
                                  !.key = IDBIDASettings_hashnxt(task.plugin, task.key)]
                    /\ UNCHANGED last
       ELSE /\ UNCHANGED <<system, user, directory, netnodes, plugin_names, idb>>
            /\ IF task.pc = "keys"
               THEN /\ task' = [task EXCEPT
                                  !.pc = "next",
                                  !.keys = QSettings_allKeys(settings(task.scope, task.plugin))]
                    /\ UNCHANGED last
               ELSE IF task.keys = <<>>
               THEN IterEnd(Returns(task.out))
               ELSE /\ task' = [task EXCEPT !.pc = "get",
                                            !.key = Head(task.keys),
                                            !.keys = Tail(task.keys)]
                    /\ UNCHANGED last
    /\ UNCHANGED nops

\* another caller's del_value(key) on the store that is being listed, once
\* while the call is in progress; hit: the key deleted is one the store held
\* and get_keys has yielded, and self[k] has not yet been evaluated for it
ExternalDelete ==
    /\ task.op \in {"items", "values"}
    /\ task.pc # "done"
    /\ task.dels = 0
    /\ \E key \in Keys :
         /\ DelValueWrites(task.plugin, task.scope, key)
         /\ task' = [task EXCEPT
                       !.dels = 1,
                       !.hit = /\ task.pc = "get"
                               /\ task.key = key
                               /\ (IF task.scope = "idb" THEN idb
                                   ELSE StoreOf(task.scope))[task.plugin][key] # Absent]
    /\ UNCHANGED <<last, nops>>

\* set_value while no items() or values() is in progress
IterSetValue ==
    /\ task.pc = "done"
    /\ SetValueOf(IterPlugins, Scopes, Values)

NextIter ==
    \/ IterSetValue
    \/ IterCall
    \/ IterStep
    \/ ExternalDelete

SpecIter == Init /\ [][NextIter]_vars

-----------------------------------------------------------------------------
(* The IDB scope and IDASettings.get_value on an IDB whose meta netnode may *)
(* already hold a list of plugin names, IDBIDASettings.set_value being made *)
(* statement by statement and stopped at any of them                        *)

\* what hashval(PLUGIN_NAMES_KEY) of the IDB that is opened gives: None, or
\* the list of names (lines 278-283 read either)
RegistryInits == {None, <<PLUGIN_1>>, <<PLUGIN_2, PLUGIN_1>>}

\* values given to set_value: bytes, and None, which is not bytes
IdbValues == Values \cup {None}

InitIdb ==
    /\ system = EmptyStore
    /\ user = EmptyStore
    /\ directory = EmptyStore
    /\ plugin_names \in RegistryInits
    /\ netnodes = IF plugin_names = None THEN {} ELSE {MetaNodeName}
    /\ idb = EmptyStore
    /\ task = Idle
    /\ last = Call("init", <<>>, NoArg, NoArg, NoArg, Returns(None))
    /\ nops = 0

\* the plugin name is in the list that PLUGIN_NAMES_KEY holds
InRegistry(plugin_name) ==
    /\ plugin_names # None
    /\ \E i \in 1..Len(plugin_names) : plugin_names[i] = plugin_name

\* no call is in progress: the last one has ended or was stopped
NoCallInProgress == task.pc \in {"done", "stopped"}

\* IDASettings(plugin_name).idb.set_value(key, value) is called
IdbSetCall ==
    /\ nops < MaxOps
    /\ nops' = nops + 1
    /\ NoCallInProgress
    /\ \E plugin_name \in PluginArgs, key \in Keys, value \in IdbValues :
         IF IDASettings_init(plugin_name).exc # "none"
         THEN /\ ConstructorRaises("set_value", plugin_name, "idb", key, value)
              /\ task' = Idle
         ELSE /\ task' = [op |-> "set_value", pc |-> "check", plugin |-> plugin_name,
                          key |-> key, value |-> value, steps |-> {},
                          fresh |-> ~InRegistry(plugin_name)]
              /\ UNCHANGED <<system, user, directory, netnodes, plugin_names, idb, last>>

\* set_value ends with outcome r
IdbSetEnd(r) ==
    /\ last' = Call("set_value", task.plugin, "idb", task.key, task.value, r)
    /\ task' = [task EXCEPT !.pc = "done"]

\* The next statement of IDBIDASettings.set_value:
\*   "check":   the tests of the key and the value (lines 328-332);
\*   "netnode": idaapi.netnode(node_name, 0, True) (line 310);
\*   "add":     add_netnode_plugin_name(self._plugin_name) (line 311), the
\*              registry update; an exception ends the call;
\*   "hashset": hashset(key, value) (line 334), the key write.
\* steps: which of the registry update and the key write have been made.
IdbSetStep ==
    /\ task.op = "set_value"
    /\ ~NoCallInProgress
    /\ CASE task.pc = "check" ->
              /\ IF ~isinstance_basestring(task.key) \/ ~isinstance_bytes(task.value)
                 THEN IdbSetEnd(Raises("TypeError"))
                 ELSE /\ task' = [task EXCEPT !.pc = "netnode"]
                      /\ UNCHANGED last
              /\ UNCHANGED <<netnodes, plugin_names, idb>>
         [] task.pc = "netnode" ->
              /\ netnodes' = netnode_create(PluginNodeName(task.plugin))
              /\ task' = [task EXCEPT !.pc = "add"]
              /\ UNCHANGED <<plugin_names, idb, last>>
         [] task.pc = "add" ->
              /\ plugin_names' = add_netnode_plugin_name_names(task.plugin)
              /\ IF add_netnode_plugin_name(task.plugin).exc # "none"
                 THEN IdbSetEnd(add_netnode_plugin_name(task.plugin))
                 ELSE /\ task' = [task EXCEPT !.pc = "hashset",
                                              !.steps = task.steps \cup {"registry"}]
                      /\ UNCHANGED last
              /\ UNCHANGED <<netnodes, idb>>
         [] task.pc = "hashset" ->
              /\ idb' = [idb EXCEPT ![task.plugin][task.key] = task.value]
              /\ last' = Call("set_value", task.plugin, "idb", task.key, task.value,
                              Returns(None))
              /\ task' = [task EXCEPT !.pc = "done",
                                      !.steps = task.steps \cup {"key"}]
              /\ UNCHANGED <<netnodes, plugin_names>>
    /\ UNCHANGED <<system, user, directory, nops>>

\* execution stops before the next statement of set_value: what the IDB
\* holds stays as it is
Stop ==
    /\ task.op = "set_value"
    /\ ~NoCallInProgress
    /\ task' = [task EXCEPT !.pc = "stopped"]
    /\ UNCHANGED <<system, user, directory, netnodes, plugin_names, idb, last, nops>>

\* the other calls that reach the IDB scope, made while no set_value is in
\* progress
IdbCalls ==
    /\ NoCallInProgress
    /\ \/ GetValueOf(PluginArgs, {"idb"})
       \/ DelValueOf(PluginArgs, {"idb"})
       \/ GetKeysOf(PluginArgs, {"idb"})
       \/ ResolveOf(PluginArgs)
       \/ IdbPluginNames

NextIdb ==
    \/ IdbSetCall
    \/ IdbSetStep
    \/ Stop
    \/ IdbCalls

SpecIdb == InitIdb /\ [][NextIdb]_vars

-----------------------------------------------------------------------------
(* Plugin names: validate and the constructors on every name of at most    *)
(* MaxLen characters                                                        *)

InitValidate ==
    /\ system = EmptyStore
    /\ user = EmptyStore
    /\ directory = EmptyStore
    /\ netnodes = {}
    /\ plugin_names = None
    /\ idb = EmptyStore
    /\ task = Idle
    /\ nops = 0
    /\ \E name \in Names : last = Call("input", name, NoArg, NoArg, NoArg, Returns(None))

\* validate(name)
Validate ==
    /\ last.op = "input"
    /\ last' = Call("validate", last.plugin, NoArg, NoArg, NoArg,
                    Returns(validate(last.plugin)))
    /\ nops' = nops + 1
    /\ UNCHANGED <<system, user, directory, netnodes, plugin_names, idb, task>>

\* IDASettings(name)
NewIDASettings ==
    /\ last.op = "input"
    /\ last' = Call("IDASettings", last.plugin, NoArg, NoArg, NoArg,
                    IDASettings_init(last.plugin))
    /\ nops' = nops + 1
    /\ UNCHANGED <<system, user, directory, netnodes, plugin_names, idb, task>>

\* SystemIDASettings(name), UserIDASettings(name), DirectoryIDASettings(name),
\* IDBIDASettings(name): the constructor of IDASettingsBase
NewScopeStore ==
    /\ last.op = "input"
    /\ \E scope \in Scopes :
         last' = Call("scope_store", last.plugin, scope, NoArg, NoArg,
                      IDASettingsBase_init(last.plugin))
    /\ nops' = nops + 1
    /\ UNCHANGED <<system, user, directory, netnodes, plugin_names, idb, task>>

NextValidate ==
    \/ Validate
    \/ NewIDASettings
    \/ NewScopeStore

SpecValidate == InitValidate /\ [][NextValidate]_vars

-----------------------------------------------------------------------------
(* What the properties below speak about *)

\* the value scope holds for key in the group of plugin_name, Absent when it
\* holds none
Stored(scope, plugin_name, key) ==
    IF scope = "idb" THEN idb[plugin_name][key] ELSE StoreOf(scope)[plugin_name][key]

\* Document > Directory > User > System
Priority == <<"idb", "directory", "user", "system">>

RECURSIVE FirstHolding(_, _, _)
FirstHolding(plugin_name, key, i) ==
    IF i > Len(Priority) THEN Absent
    ELSE IF Stored(Priority[i], plugin_name, key) # Absent
         THEN Stored(Priority[i], plugin_name, key)
         ELSE FirstHolding(plugin_name, key, i + 1)

\* the value of the highest-priority scope that holds key, Absent when none does
HighestStored(plugin_name, key) == FirstHolding(plugin_name, key, 1)

Elems(seq) == {seq[i] : i \in 1..Len(seq)}
NoDuplicates(seq) == \A i, j \in 1..Len(seq) : seq[i] = seq[j] => i = j

QSettingsScopes == {"system", "user", "directory"}

\* the last call was op, made with a string key
Called(op) == last.op = op /\ last.key \in Keys

-----------------------------------------------------------------------------
(* C1..C10 *)

\* C1: whenever some scope holds K, resolve(K) (IDASettings.get_value)
\* returns the value of the highest-priority scope that holds K, with
\* priority Document > Directory > User > System.
C1_ResolveReturnsHighestPriority ==
    (Called("resolve") /\ HighestStored(last.plugin, last.key) # Absent)
        => (last.exc = "none" /\ last.ret = HighestStored(last.plugin, last.key))

\* C2: when K is absent from all four scopes, resolve(K) fails with KeyError,
\* and with no other error.
C2_ResolveAbsentIsKeyError ==
    (Called("resolve") /\ HighestStored(last.plugin, last.key) = Absent)
        => last.exc = "KeyError"

\* C3: in each of the four scopes, set(K, V) returns and a get(K) made after
\* it on the same scope (through any handle) returns exactly V, also when K
\* held another value before.
C3_SetThenGet ==
    Called("set_value")
        => /\ last.exc = "none"
           /\ get_value(last.scope, last.plugin, last.key) = Returns(last.value)

C5_UserGetFallsBackToSystem ==
    (Called("get_value") /\ last.scope = "user"
        /\ Stored("system", last.plugin, last.key) # Absent
        /\ Stored("user", last.plugin, last.key) = Absent)
        => /\ last.exc = "none"
           /\ last.ret = Stored("system", last.plugin, last.key)

\* test_system_fallback: system.set_value(KEY_1, VALUE_1), then
\* user.get_value(KEY_1) has returned VALUE_1
C5_Witness ==
    /\ Called("get_value")
    /\ last.scope = "user"
    /\ last.plugin = PLUGIN_1
    /\ last.key = KEY_1
    /\ Stored("system", PLUGIN_1, KEY_1) = VALUE_1
    /\ Stored("user", PLUGIN_1, KEY_1) = Absent
    /\ last.ret = VALUE_1

\* C6, on the System, Directory and Document scopes: delete(K) on a key the
\* scope does not hold does not raise and leaves every key/value mapping
\* unchanged, and a get(K) made after it fails with KeyError.
C6_DeleteAbsentIsNoOp ==
    [][(/\ nops' = nops + 1
        /\ last'.op = "del_value"
        /\ last'.scope # "user"
        /\ Stored(last'.scope, last'.plugin, last'.key) = Absent)
        => /\ last'.exc = "none"
           /\ <<system, user, directory>>' = <<system, user, directory>>
           /\ (get_value(last.scope, last.plugin, last.key).exc = "KeyError")'
      ]_vars

\* C7, on the System, Directory and Document scopes: after set(K, V)
\* followed by delete(K), get(K) fails with KeyError, "K in store" is False,
\* and keys() does not contain K and contains every other key the scope holds.
C7_SetDeleteRemovesKey ==
    [][(/\ nops' = nops + 1
        /\ Called("set_value")
        /\ last.scope # "user"
        /\ last'.op = "del_value"
        /\ last'.scope = last.scope
        /\ last'.plugin = last.plugin
        /\ last'.key = last.key)
        => /\ last.exc = "none"
           /\ last'.exc = "none"
           /\ (/\ get_value(last.scope, last.plugin, last.key).exc = "KeyError"
               /\ DictMixin_contains(last.scope, last.plugin, last.key) = Returns(FALSE)
               /\ get_keys(last.scope, last.plugin).exc = "none"
               /\ Elems(get_keys(last.scope, last.plugin).ret)
                    = {k \in Keys : Stored(last.scope, last.plugin, k) # Absent}
               /\ last.key \notin Elems(get_keys(last.scope, last.plugin).ret))'
      ]_vars

\* C8, on the System, Directory and Document scopes: keys() returns, and
\* yields exactly the keys the scope currently holds a value for, each once
\* (none for an empty scope).
C8_KeysAreTheStoredKeys ==
    (last.op = "get_keys" /\ last.scope # "user")
        => /\ last.exc = "none"
           /\ NoDuplicates(last.ret)
           /\ Elems(last.ret) = {k \in Keys : Stored(last.scope, last.plugin, k) # Absent}

\* the names C9 allows: not empty, and every character a letter, a digit, a
\* space, a dash or a dot
NameAllowed(name) ==
    /\ Len(name) >= 1
    /\ \A i \in 1..Len(name) : InClass(name[i])

\* C9: validate(name) is true exactly for the allowed names, and
\* constructing IDASettings or a scope store fails with an error exactly for
\* the names that are not allowed.
C9_ValidateExactlyAllowedNames ==
    /\ last.op = "validate" => last.ret = NameAllowed(last.plugin)
    /\ last.op \in {"IDASettings", "scope_store"}
         => (last.exc = "RuntimeError") = ~NameAllowed(last.plugin)

\* namespace N is listed by idb_plugin_names
Registered(plugin_name) ==
    /\ IDASettings_idb_plugin_names.exc = "none"
    /\ plugin_name \in Elems(IDASettings_idb_plugin_names.ret)

\* C10: a set on the Document scope of namespace N with a string key and a
\* bytes value succeeds, and after every get, set, delete or keys call on
\* the Document scope of N that succeeded, idb_plugin_names lists N.
C10_DocumentAccessRegistersNamespace ==
    /\ (Called("set_value") /\ last.scope = "idb") => last.exc = "none"
    /\ (/\ last.op \in {"get_value", "set_value", "del_value", "get_keys"}
        /\ last.scope = "idb"
        /\ last.exc = "none")
         => Registered(last.plugin)

-----------------------------------------------------------------------------
(* C11..C18 *)

\* C11, as claimed: in the dictionary layer, for a key K whose stored value
\* is None or empty, "K in store" is False while get(K) on the same store
\* succeeds and returns the stored value.
C11_NullOrEmptyIsAbsentForInButNotForGet ==
    (Called("contains") /\ Stored(last.scope, last.plugin, last.key) \in {None, EMPTY_BYTES})
        => /\ last.exc = "none"
           /\ last.ret = FALSE
           /\ DictMixin_getitem(last.scope, last.plugin, last.key)
                = Returns(Stored(last.scope, last.plugin, last.key))

\* C11, amended: "K in store" is True exactly when get(K) on the same store
\* succeeds, and get never returns None.  For a key whose stored value is
\* empty, "K in store" is True and get(K) returns the empty value; for a key
\* whose stored value is None, "K in store" is False and get(K) fails with
\* KeyError.  On the Document scope both fail with the same error.
C11_InIsTrueExactlyWhenGetSucceeds ==
    Called("contains") =>
        LET got == DictMixin_getitem(last.scope, last.plugin, last.key)
            held == Stored(last.scope, last.plugin, last.key)
        IN  /\ got.exc = "none" => got.ret # None
            /\ got.exc \in {"none", "KeyError"}
                 => /\ last.exc = "none"
                    /\ last.ret = (got.exc = "none")
            /\ got.exc \notin {"none", "KeyError"}
                 => /\ last.exc = got.exc
                    /\ last.scope = "idb"
            /\ held = EMPTY_BYTES
                 => /\ last.ret = TRUE
                    /\ got = Returns(EMPTY_BYTES)
            /\ held = None
                 => /\ last.ret = FALSE
                    /\ got.exc = "KeyError"

\* "K in store" has answered True for a key whose stored value is empty
C11_Witness ==
    /\ Called("contains")
    /\ last.scope = "directory"
    /\ Stored("directory", last.plugin, last.key) = EMPTY_BYTES
    /\ last.exc = "none"
    /\ last.ret = TRUE

\* C12: a set(K, V) or delete(K) on scope S of namespace N leaves what
\* every other scope of N, every other namespace in any scope and every
\* other key of (N, S) hold as it was; besides the entry of K it changes
\* nothing but the namespace registry and the netnode that holds the hash of
\* N, and these only when S is the Document scope.
C12_WritesChangeOnlyTheKeyWritten ==
    [][(/\ nops' = nops + 1
        /\ last'.op \in {"set_value", "del_value"})
        => /\ \A scope \in Scopes, plugin_name \in Groups, key \in Keys :
                (scope # last'.scope \/ plugin_name # last'.plugin \/ key # last'.key)
                    => Stored(scope, plugin_name, key)' = Stored(scope, plugin_name, key)
           /\ last'.scope # "idb" => <<plugin_names, netnodes>>' = <<plugin_names, netnodes>>
           /\ last'.scope = "idb" => /\ netnodes \subseteq netnodes'
                                     /\ netnodes' \subseteq netnodes \cup {PluginNodeName(last'.plugin)}
      ]_vars

\* a set on the User scope has written K while the System scope holds K, the
\* User scope holds another key and the Directory scope holds K for that
\* other key
C12_Witness ==
    /\ Called("set_value")
    /\ last.scope = "user"
    /\ last.exc = "none"
    /\ Stored("user", last.plugin, last.key) = last.value
    /\ Stored("system", last.plugin, last.key) \in Values \ {last.value}
    /\ \E key \in Keys \ {last.key} : Stored("user", last.plugin, key) # Absent

\* the outcome of the call of get_value that has ended
Outcome == [exc |-> last.exc, ret |-> last.ret]

C16_OnlyKeyErrorIsRecovered ==
    (task.op = "resolve" /\ task.pc = "done" /\ task.sets = 0)
        => \A i \in 1..Len(ProbeOrder) :
             (/\ get_value(ProbeOrder[i], task.plugin, task.key).exc \notin {"none", "KeyError"}
              /\ \A j \in 1..(i - 1) :
                   get_value(ProbeOrder[j], task.plugin, task.key).exc = "KeyError")
                => /\ Outcome = get_value(ProbeOrder[i], task.plugin, task.key)
                   /\ task.probe = i

\* a get_value has ended with the error of its first probe while the
\* Directory scope holds the key
C16_Witness ==
    /\ task.op = "resolve"
    /\ task.pc = "done"
    /\ task.sets = 0
    /\ task.probe = 1
    /\ task.key = KEY_1
    /\ last.exc \notin {"none", "KeyError"}
    /\ Stored("directory", task.plugin, KEY_1) = VALUE_1

\* what items() and values() give when nothing interferes: for each key of
\* keys(), in that order, the pair (k, get(k)), or get(k)
RECURSIVE Listing(_, _, _, _)
Listing(op, scope, plugin_name, ks) ==
    IF ks = <<>> THEN <<>>
    ELSE <<IF op = "items"
           THEN <<Head(ks), get_value(scope, plugin_name, Head(ks)).ret>>
           ELSE get_value(scope, plugin_name, Head(ks)).ret>>
         \o Listing(op, scope, plugin_name, Tail(ks))

\* C14, on the System, Directory and Document scopes: items() and values()
\* enumerate keys() and call get per key in that order.  When nothing
\* interferes they return (k, get(k)), or get(k), for each key of keys() in
\* order; when another writer deletes a key between the step that yields it
\* and the get for it, the call fails with KeyError.
C14_ItemsFollowKeysAndGet ==
    (task.op \in {"items", "values"} /\ task.pc = "done" /\ last.op = task.op
        /\ task.scope # "user")
        => /\ task.dels = 0
             => /\ last.exc = "none"
                /\ get_keys(task.scope, task.plugin).exc = "none"
                /\ last.ret = Listing(task.op, task.scope, task.plugin,
                                      get_keys(task.scope, task.plugin).ret)
           /\ task.hit => last.exc = "KeyError"

\* C15: a Document-scope set(K, V) for a namespace N that is not in the
\* registry consists of two steps, the registry update and the key write:
\* when it has ended both are made, N is in the registry and K holds V; when
\* execution stops between the two, the document store holds data for N
\* while N is absent from the registry.
C15_StopBetweenLeavesDataUnregistered ==
    (task.op = "set_value" /\ task.fresh /\ isinstance_bytes(task.value))
        => /\ (task.pc = "done" /\ last.op = "set_value")
             => /\ last.exc = "none"
                /\ task.steps = {"registry", "key"}
                /\ InRegistry(task.plugin)
                /\ idb[task.plugin][task.key] = task.value
           /\ (task.pc = "stopped" /\ Cardinality(task.steps) = 1)
             => /\ idb[task.plugin][task.key] = task.value
                /\ ~InRegistry(task.plugin)

\* the namespaces the registry holds
RegistryNames(names) == IF names = None THEN {} ELSE Elems(names)

\* the namespace on whose behalf a step is made: that of the set_value in
\* progress, or that of the call the step makes
Accessor == IF ~NoCallInProgress' \/ ~NoCallInProgress THEN task'.plugin ELSE last'.plugin

\* C17: the registry only grows and holds each namespace at most once: no
\* get, set, delete, keys or resolve removes a namespace from it, and a
\* Document-scope access by a namespace that is registered writes nothing to
\* it.
C17_RegistryOnlyGrows ==
    [][/\ RegistryNames(plugin_names) \subseteq RegistryNames(plugin_names')
       /\ plugin_names # None => /\ plugin_names' # None
                                 /\ NoDuplicates(plugin_names')
       /\ InRegistry(Accessor) => plugin_names' = plugin_names
      ]_vars

\* a del_value on the Document scope has been made for a namespace that the
\* registry holds, the hash of the namespace holding no key
C17_Witness ==
    /\ last.op = "del_value"
    /\ last.scope = "idb"
    /\ InRegistry(last.plugin)
    /\ PluginNodeName(last.plugin) \in netnodes
    /\ \A key \in Keys : idb[last.plugin][key] = Absent
    /\ NoDuplicates(plugin_names)

\* C18: resolve(K) and get(K) on any scope leave what every scope holds for
\* every namespace and key as it was, whether they return or raise; besides
\* the outcome they change nothing but the namespace registry, by adding the
\* caller's namespace, and the netnode that holds the hash of the caller's
\* namespace, and these only when the Document scope is probed.
C18_ReadsChangeNoMapping ==
    [][(/\ nops' = nops + 1
        /\ last'.op \in {"get_value", "resolve"})
        => /\ \A scope \in Scopes, plugin_name \in Groups, key \in Keys :
                Stored(scope, plugin_name, key)' = Stored(scope, plugin_name, key)
           /\ RegistryNames(plugin_names) \subseteq RegistryNames(plugin_names')
           /\ RegistryNames(plugin_names') \subseteq RegistryNames(plugin_names) \cup {last'.plugin}
           /\ netnodes \subseteq netnodes'
           /\ netnodes' \subseteq netnodes \cup {PluginNodeName(last'.plugin)}
           /\ (last'.op = "get_value" /\ last'.scope # "idb")
                => <<plugin_names, netnodes>>' = <<plugin_names, netnodes>>
      ]_vars

\* a resolve has raised while the Directory and the System scope hold
\* different values for the key and the User scope holds none
C18_Witness ==
    /\ Called("resolve")
    /\ last.exc # "none"
    /\ Stored("directory", last.plugin, last.key) = VALUE_1
    /\ Stored("system", last.plugin, last.key) = VALUE_2
    /\ Stored("user", last.plugin, last.key) = Absent
    /\ PluginNodeName(last.plugin) \in netnodes

====
